---- MODULE Spec2Model ----
(***************************************************************************)
(* Model of the cover-letter generator's workflow (src/main.py): the       *)
(* settings record and its dialog, the two tabs ("Paste Webpage" = Source, *)
(* "Cover Letter" = Review), the chat transcript widget, the cover letter  *)
(* widget (the Artifact), the LangChain conversation memory, and the       *)
(* handlers generate_cover_letter, send_message, go_to_paste_webpage,      *)
(* check_settings, show_settings_dialog and SettingsDialog.save_settings.  *)
(*                                                                         *)
(* Strings are sequences of tokens; the empty string is <<>>.  A handler   *)
(* that shows the loading dialog is a frame on `stack`: handlers run on    *)
(* the interaction thread, and a handler delivered by a processEvents()    *)
(* call of another handler runs nested inside it.                          *)
(***************************************************************************)
EXTENDS Integers, Sequences, FiniteSets, TLC

VARIABLES
    app,                  \* "start" | "check" | "running" | "crashed"
    settings,             \* MainWindow.settings (shared with every SettingsDialog)
    settings_file,        \* settings.json: [state, data]
    llm_key,              \* the api key self.llm was constructed with
    memory,               \* ConversationBufferMemory: sequence of turns
    html_editor,          \* text of the source editor
    tab,                  \* tab_widget.currentIndex(): 0 = Source, 1 = Review
    cover_letter_display, \* the Artifact
    chat_display,         \* the transcript: sequence of lines
    stack,                \* handler frames of the interaction thread
    inflight,             \* backend requests being served
    calls,                \* number of backend calls issued so far
    event                 \* what the last step was: "generate_rejected", "return",
                          \* "discarded", or "step" for every other step

vars == <<app, settings, settings_file, llm_key, memory, html_editor, tab,
          cover_letter_display, chat_display, stack, inflight, calls, event>>

----------------------------------------------------------------------------
\* Bounds of the model.

\* The total number of backend calls explored.
MaxCalls == 3

\* The nesting depth of handlers explored.
MaxDepth == 2

----------------------------------------------------------------------------
\* Input values.

SourceTexts == {<<>>, <<" ">>, <<" ", "a", " ">>}
Messages == {<<>>, <<" ">>, <<"m">>}
Replies == {<<"r1">>, <<"r2">>}


----------------------------------------------------------------------------
\* Pure helpers.

\* dataclass Settings with its defaults.
Settings == [api_key |-> <<>>, resume |-> <<>>, initial_prompt |-> <<>>]

IsSpace(c) == c = " "

RECURSIVE LStrip(_)
LStrip(s) == IF s # <<>> /\ IsSpace(Head(s)) THEN LStrip(Tail(s)) ELSE s

RECURSIVE RStrip(_)
RStrip(s) ==
    IF s # <<>> /\ IsSpace(s[Len(s)]) THEN RStrip(SubSeq(s, 1, Len(s) - 1)) ELSE s

\* str.strip()
Strip(s) == RStrip(LStrip(s))

\* Python truthiness of a str.
Truthy(s) == Len(s) > 0

\* the line break and the code fence of the prompt, as tokens
Newline == <<"LF">>
Fence == <<"FENCE">>

\* '\n'.join(parts)
RECURSIVE Join(_)
Join(parts) ==
    IF parts = <<>> THEN <<>>
    ELSE IF Len(parts) = 1 THEN parts[1]
    ELSE parts[1] \o Newline \o Join(Tail(parts))

\* the prompt of call_generate_cover_letter
Prompt(s, source) ==
    Join(<< s.initial_prompt,
            <<"Here is the resume:">>,
            Fence,
            s.resume,
            Fence,
            <<"Here is the webpage content:">>,
            Fence,
            Strip(source),
            Fence >>)

UpdatePrompt == <<"Please generate an updated cover letter.">>

\* the condition of save_settings and check_settings
Complete(s) == Truthy(s.api_key) /\ Truthy(s.resume) /\ Truthy(s.initial_prompt)

\* settings.json: absent, not parseable as JSON, or holding a record.
File(state, data) == [state |-> state, data |-> data]

InitialFiles ==
    { File("absent", Settings), File("corrupt", Settings),
      File("ok", [api_key |-> <<"k1">>, resume |-> <<"R">>, initial_prompt |-> <<"I">>]) }

\* The contents of the settings dialog's three fields when Save is clicked.
DialogInputs ==
    { [api_key |-> <<"k2">>, resume |-> <<"R">>, initial_prompt |-> <<"I">>],
      [api_key |-> <<"k2">>, resume |-> <<>>, initial_prompt |-> <<"I">>] }

\* os.path.exists("settings.json")
FileExists(f) == f.state # "absent"

\* SettingsDialog.load_settings: the file's fields overwrite the settings.
LoadSettings(s, f) == IF f.state = "ok" THEN f.data ELSE s

\* memory.clear()
ClearMemoryKept(mem) == mem
ClearMemory(mem) == <<>>

\* ConversationChain.run saves the exchange into its memory on success.
SaveContextDropped(mem, input, output) == mem
SaveContext(mem, input, output) ==
    mem \o << [role |-> "human", content |-> input],
              [role |-> "ai", content |-> output] >>

\* chat_display.append(f"You: ...") / (f"Bot: ...")
YouLine(text) == [role |-> "You", content |-> text]
BotLine(text) == [role |-> "Bot", content |-> text]

\* send_message appends the user's line only for a truthy message.
AppendUserLineAlways(chat, user_message) == Append(chat, YouLine(user_message))
AppendUserLine(chat, user_message) ==
    IF Truthy(user_message) THEN Append(chat, YouLine(user_message)) ELSE chat

\* The two writes that end send_message: the reply goes to the transcript,
\* the updated cover letter to the cover letter widget.
SendWritesSwapped(chat, response, updated_cover_letter) ==
    [chat |-> Append(chat, BotLine(updated_cover_letter)), letter |-> response]
SendWrites(chat, response, updated_cover_letter) ==
    [chat |-> Append(chat, BotLine(response)), letter |-> updated_cover_letter]

\* the gate of generate_cover_letter
SourceMissingNever(source) == FALSE
SourceMissing(source) == Strip(source) = <<>>

----------------------------------------------------------------------------
\* Handler frames.

Frame(op, pc, user_message, chat) ==
    [op |-> op, pc |-> pc, user_message |-> user_message,
     response |-> <<>>, result |-> <<>>, failed |-> 0, issued |-> <<>>,
     pre |-> [artifact |-> cover_letter_display, chat |-> chat, tab |-> tab]]

Top == stack[Len(stack)]
Pop == SubSeq(stack, 1, Len(stack) - 1)
SetTop(f) == [stack EXCEPT ![Len(stack)] = f]

IsLoader(f) == f.op \in {"generate", "send"}

\* The places where a handler with a loading dialog calls processEvents():
\* __enter__ after show(), closeEvent before the dialog is hidden, and
\* __exit__ after close().  The dialog is modal, so while it is visible the
\* main window's input is discarded; only the last call delivers intents.
DeliversIntentsNotModal(pc) == pc \in {"enter", "close", "exit"}
DeliversIntents(pc) == pc = "exit"

DiscardsIntents(pc) == pc \in {"enter", "close"} /\ ~DeliversIntents(pc)

\* The interaction thread can run a main-window handler now.
Deliverable ==
    /\ app = "running"
    /\ \/ stack = <<>>
       \/ /\ stack # <<>>
          /\ IsLoader(Top)
          /\ DeliversIntents(Top.pc)

CanPush == Len(stack) < MaxDepth

----------------------------------------------------------------------------
Init ==
    /\ app = "start"
    /\ settings = Settings
    /\ settings_file \in InitialFiles
    /\ llm_key = <<>>
    /\ memory = <<>>
    /\ html_editor = <<>>
    /\ tab = 0
    /\ cover_letter_display = <<>>
    /\ chat_display = <<>>
    /\ stack = <<>>
    /\ inflight = <<>>
    /\ calls = 0
    /\ event = "step"

----------------------------------------------------------------------------
\* Startup: MainWindow.__init__.

\* check_settings: the dialog's constructor loads the file into the shared
\* settings; an unparseable file raises out of __init__.
CheckSettings ==
    /\ app = "start"
    /\ event' = "step"
    /\ IF settings_file.state = "corrupt"
       THEN /\ app' = "crashed"
            /\ UNCHANGED <<settings, stack>>
       ELSE /\ app' = "check"
            /\ settings' = LoadSettings(settings, settings_file)
            /\ IF ~(FileExists(settings_file) /\ Complete(settings'))
               THEN stack' = <<Frame("check_settings", "exec", <<>>, chat_display)>>
               ELSE stack' = stack
    /\ UNCHANGED <<settings_file, llm_key, memory, html_editor, tab,
                   cover_letter_display, chat_display, inflight, calls>>

\* self.llm / self.memory / self.chain are built once check_settings returns.
ConstructChain ==
    /\ app = "check"
    /\ stack = <<>>
    /\ app' = "running"
    /\ llm_key' = settings.api_key
    /\ memory' = <<>>
    /\ event' = "step"
    /\ UNCHANGED <<settings, settings_file, html_editor, tab,
                   cover_letter_display, chat_display, stack, inflight, calls>>

----------------------------------------------------------------------------
\* The settings dialog.

InSettingsDialog == stack # <<>> /\ Top.op \in {"check_settings", "settings"}

\* SettingsDialog.save_settings with the field contents `input`.
SaveSettings(input) ==
    /\ InSettingsDialog
    /\ settings' = [api_key |-> input.api_key, resume |-> input.resume,
                    initial_prompt |-> input.initial_prompt]
    /\ IF ~Complete(settings')
       THEN /\ event' = "step"
            /\ UNCHANGED <<settings_file, stack>>
       ELSE /\ event' = "step"
            /\ settings_file' = File("ok", settings')
            /\ stack' = Pop
    /\ UNCHANGED <<app, llm_key, memory, html_editor, tab,
                   cover_letter_display, chat_display, inflight, calls>>

\* The dialog is closed without an accepted save.
DismissSettings ==
    /\ InSettingsDialog
    /\ stack' = Pop
    /\ event' = "step"
    /\ UNCHANGED <<app, settings, settings_file, llm_key, memory, html_editor,
                   tab, cover_letter_display, chat_display, inflight, calls>>

\* show_settings_dialog: the constructor reloads the file, then exec().
ShowSettingsDialog ==
    /\ Deliverable
    /\ CanPush
    /\ event' = "step"
    /\ IF settings_file.state = "corrupt"
       THEN UNCHANGED <<settings, stack>>
       ELSE /\ settings' = LoadSettings(settings, settings_file)
            /\ stack' = Append(stack, Frame("settings", "exec", <<>>, chat_display))
    /\ UNCHANGED <<app, settings_file, llm_key, memory, html_editor, tab,
                   cover_letter_display, chat_display, inflight, calls>>

----------------------------------------------------------------------------
\* Intents of the main window.

\* The user edits the source editor (only visible on tab 0).
EditSource(text) ==
    /\ Deliverable
    /\ tab = 0
    /\ html_editor' = text
    /\ event' = "step"
    /\ UNCHANGED <<app, settings, settings_file, llm_key, memory, tab,
                   cover_letter_display, chat_display, stack, inflight, calls>>

\* generate_cover_letter, up to the processEvents() of __enter__.
GenerateCoverLetter ==
    /\ Deliverable
    /\ tab = 0
    /\ IF SourceMissing(html_editor)
       THEN /\ event' = "generate_rejected"
            /\ stack' = stack
       ELSE /\ CanPush
            /\ calls < MaxCalls
            /\ event' = "step"
            /\ stack' = Append(stack, Frame("generate", "enter", <<>>, chat_display))
    /\ UNCHANGED <<app, settings, settings_file, llm_key, memory, html_editor,
                   tab, cover_letter_display, chat_display, inflight, calls>>

\* send_message, up to the processEvents() of __enter__.
SendMessage(user_message) ==
    /\ Deliverable
    /\ tab = 1
    /\ CanPush
    /\ calls + 2 <= MaxCalls
    /\ event' = "step"
    /\ chat_display' = AppendUserLine(chat_display, user_message)
    /\ stack' = Append(stack, Frame("send", "enter", user_message, chat_display))
    /\ UNCHANGED <<app, settings, settings_file, llm_key, memory, html_editor,
                   tab, cover_letter_display, inflight, calls>>

\* go_to_paste_webpage
GoToPasteWebpage ==
    /\ Deliverable
    /\ tab = 1
    /\ event' = "return"
    /\ IF tab = 1 /\ Strip(html_editor) = <<>>
       THEN tab' = tab
       ELSE tab' = 0
    /\ UNCHANGED <<app, settings, settings_file, llm_key, memory, html_editor,
                   cover_letter_display, chat_display, stack, inflight, calls>>

\* An intent that reaches a processEvents() call while the modal loading
\* dialog is visible is discarded.
DiscardIntent ==
    /\ stack # <<>>
    /\ IsLoader(Top)
    /\ DiscardsIntents(Top.pc)
    /\ event' = "discarded"
    /\ UNCHANGED <<app, settings, settings_file, llm_key, memory, html_editor,
                   tab, cover_letter_display, chat_display, stack, inflight, calls>>

----------------------------------------------------------------------------
\* The worker: call_generate_cover_letter and call_send_message.  The
\* interaction thread is blocked in future.result() meanwhile.

Request(input) == [key |-> llm_key, context |-> memory', input |-> input]

\* memory.clear(), the prompt, and the start of chain.run(prompt).
CallGenerateBegin ==
    /\ stack # <<>> /\ Top.op = "generate" /\ Top.pc = "enter"
    /\ memory' = ClearMemory(memory)
    /\ inflight' = Append(inflight, Request(Prompt(settings, html_editor)))
    /\ calls' = calls + 1
    /\ stack' = SetTop([Top EXCEPT !.pc = "call1",
                                   !.issued = Append(@, Prompt(settings, html_editor))])
    /\ event' = "step"
    /\ UNCHANGED <<app, settings, settings_file, llm_key, html_editor, tab,
                   cover_letter_display, chat_display>>

\* chain.run returns the reply, or raises.
CallGenerateEnd(ok, reply) ==
    /\ stack # <<>> /\ Top.op = "generate" /\ Top.pc = "call1"
    /\ inflight' = SubSeq(inflight, 1, Len(inflight) - 1)
    /\ IF ok
       THEN /\ memory' = SaveContext(memory, inflight[Len(inflight)].input, reply)
            /\ stack' = SetTop([Top EXCEPT !.pc = "result", !.result = reply])
            /\ event' = "step"
       ELSE /\ memory' = memory
            /\ stack' = SetTop([Top EXCEPT !.pc = "close", !.failed = 1])
            /\ event' = "step"
    /\ UNCHANGED <<app, settings, settings_file, llm_key, html_editor, tab,
                   cover_letter_display, chat_display, calls>>

\* setPlainText(cover_letter); setCurrentIndex(1); then dialog.close().
GenerateFinish ==
    /\ stack # <<>> /\ Top.op = "generate" /\ Top.pc = "result"
    /\ cover_letter_display' = Top.result
    /\ tab' = 1
    /\ stack' = SetTop([Top EXCEPT !.pc = "close"])
    /\ event' = "step"
    /\ UNCHANGED <<app, settings, settings_file, llm_key, memory, html_editor,
                   chat_display, inflight, calls>>

\* chain.run(input=user_message) starts.
CallSend1Begin ==
    /\ stack # <<>> /\ Top.op = "send" /\ Top.pc = "enter"
    /\ memory' = memory
    /\ inflight' = Append(inflight, Request(Top.user_message))
    /\ calls' = calls + 1
    /\ stack' = SetTop([Top EXCEPT !.pc = "call1",
                                   !.issued = Append(@, Top.user_message)])
    /\ event' = "step"
    /\ UNCHANGED <<app, settings, settings_file, llm_key, html_editor, tab,
                   cover_letter_display, chat_display>>

CallSend1End(ok, reply) ==
    /\ stack # <<>> /\ Top.op = "send" /\ Top.pc = "call1"
    /\ inflight' = SubSeq(inflight, 1, Len(inflight) - 1)
    /\ IF ok
       THEN /\ memory' = SaveContext(memory, inflight[Len(inflight)].input, reply)
            /\ stack' = SetTop([Top EXCEPT !.pc = "between", !.response = reply])
            /\ event' = "step"
       ELSE /\ memory' = memory
            /\ stack' = SetTop([Top EXCEPT !.pc = "close", !.failed = 1])
            /\ event' = "step"
    /\ UNCHANGED <<app, settings, settings_file, llm_key, html_editor, tab,
                   cover_letter_display, chat_display, calls>>

\* chain.run(input="Please generate an updated cover letter.") starts.
CallSend2Begin ==
    /\ stack # <<>> /\ Top.op = "send" /\ Top.pc = "between"
    /\ memory' = memory
    /\ inflight' = Append(inflight, Request(UpdatePrompt))
    /\ calls' = calls + 1
    /\ stack' = SetTop([Top EXCEPT !.pc = "call2",
                                   !.issued = Append(@, UpdatePrompt)])
    /\ event' = "step"
    /\ UNCHANGED <<app, settings, settings_file, llm_key, html_editor, tab,
                   cover_letter_display, chat_display>>

CallSend2End(ok, reply) ==
    /\ stack # <<>> /\ Top.op = "send" /\ Top.pc = "call2"
    /\ inflight' = SubSeq(inflight, 1, Len(inflight) - 1)
    /\ IF ok
       THEN /\ memory' = SaveContext(memory, inflight[Len(inflight)].input, reply)
            /\ stack' = SetTop([Top EXCEPT !.pc = "result", !.result = reply])
            /\ event' = "step"
       ELSE /\ memory' = memory
            /\ stack' = SetTop([Top EXCEPT !.pc = "close", !.failed = 2])
            /\ event' = "step"
    /\ UNCHANGED <<app, settings, settings_file, llm_key, html_editor, tab,
                   cover_letter_display, chat_display, calls>>

\* chat_display.append(f"Bot: {response}"); setPlainText(updated_cover_letter).
SendFinish ==
    /\ stack # <<>> /\ Top.op = "send" /\ Top.pc = "result"
    /\ chat_display' = SendWrites(chat_display, Top.response, Top.result).chat
    /\ cover_letter_display' = SendWrites(chat_display, Top.response, Top.result).letter
    /\ stack' = SetTop([Top EXCEPT !.pc = "close"])
    /\ event' = "step"
    /\ UNCHANGED <<app, settings, settings_file, llm_key, memory, html_editor,
                   tab, inflight, calls>>

\* __exit__: dialog.close() has run closeEvent's processEvents(); the dialog
\* is hidden and __exit__ calls processEvents() again.
CloseLoadingDialog ==
    /\ stack # <<>> /\ IsLoader(Top) /\ Top.pc = "close"
    /\ stack' = SetTop([Top EXCEPT !.pc = "exit"])
    /\ event' = "step"
    /\ UNCHANGED <<app, settings, settings_file, llm_key, memory, html_editor,
                   tab, cover_letter_display, chat_display, inflight, calls>>

\* The handler returns (or its exception reaches the event loop).
HandlerReturn ==
    /\ stack # <<>> /\ IsLoader(Top) /\ Top.pc = "exit"
    /\ stack' = Pop
    /\ event' = "step"
    /\ UNCHANGED <<app, settings, settings_file, llm_key, memory, html_editor,
                   tab, cover_letter_display, chat_display, inflight, calls>>

----------------------------------------------------------------------------
Next ==
    \/ CheckSettings
    \/ ConstructChain
    \/ \E input \in DialogInputs : SaveSettings(input)
    \/ DismissSettings
    \/ ShowSettingsDialog
    \/ \E text \in SourceTexts : EditSource(text)
    \/ GenerateCoverLetter
    \/ \E m \in Messages : SendMessage(m)
    \/ GoToPasteWebpage
    \/ DiscardIntent
    \/ CallGenerateBegin
    \/ \E ok \in BOOLEAN, reply \in Replies : CallGenerateEnd(ok, reply)
    \/ GenerateFinish
    \/ CallSend1Begin
    \/ \E ok \in BOOLEAN, reply \in Replies : CallSend1End(ok, reply)
    \/ CallSend2Begin
    \/ \E ok \in BOOLEAN, reply \in Replies : CallSend2End(ok, reply)
    \/ SendFinish
    \/ CloseLoadingDialog
    \/ HandlerReturn

Spec == Init /\ [][Next]_vars

----------------------------------------------------------------------------
\* Shorthands of the properties.

Running(op) == stack # <<>> /\ Top.op = op
Request1 == inflight[1]
Succeeded(f) == f.pc = "close" /\ f.failed = 0
Failed(f) == f.pc = "close" /\ f.failed > 0
Blank(text) == Strip(text) = <<>>
CountRole(seq, r) == Cardinality({i \in 1..Len(seq) : seq[i].role = r})
LastTurns(mem, n) == SubSeq(mem, Len(mem) - n + 1, Len(mem))
Exchange(input, output) ==
    << [role |-> "human", content |-> input], [role |-> "ai", content |-> output] >>

----------------------------------------------------------------------------
\* C1: generate() on a source that is empty after trimming issues no backend
\* call and changes neither the phase nor the Artifact; on a non-empty source
\* the phase stays Source until the backend call has succeeded, and then the
\* phase is Review and the Artifact is exactly the text the call returned; a
\* failed call leaves the phase at Source and the Artifact as it was.
C1_Started ==
    Running("generate") /\ Top.pc # "exit" => ~Blank(html_editor)

C1_Outcome ==
    Running("generate") =>
        /\ Top.pc \in {"enter", "call1", "result"} =>
               tab = 0 /\ cover_letter_display = Top.pre.artifact
        /\ Succeeded(Top) =>
               /\ tab = 1
               /\ LastTurns(memory, 2) = Exchange(Top.issued[1], cover_letter_display)
        /\ Failed(Top) => tab = 0 /\ cover_letter_display = Top.pre.artifact

C1_Rejected ==
    event' = "generate_rejected" =>
        /\ Blank(html_editor)
        /\ tab' = tab /\ tab = 0
        /\ cover_letter_display' = cover_letter_display
        /\ calls' = calls /\ inflight' = inflight /\ stack' = stack

C1_Gate == [](C1_Started /\ C1_Outcome) /\ [][C1_Rejected]_vars

\* C1 witness: a generate() on a source that trimming changes has succeeded
\* and replaced an earlier Artifact.
C1_Witness ==
    /\ Running("generate") /\ Succeeded(Top)
    /\ html_editor # Strip(html_editor)
    /\ Top.pre.artifact # <<>>
    /\ cover_letter_display # Top.pre.artifact

\* C2: sendMessage(text) with text empty after trimming is ignored: no
\* backend call, no turn added to the transcript, Artifact unchanged.
C2_BlankIgnored ==
    Running("send") /\ Blank(Top.user_message) =>
        /\ Top.issued = <<>>
        /\ chat_display = Top.pre.chat
        /\ cover_letter_display = Top.pre.artifact

\* C3: at most one generation or chat exchange is in flight: a handler
\* below the running one has made its last write (it is in the
\* processEvents() call that ends __exit__), and at most one backend
\* request is being served.
C3_OneInFlight ==
    /\ Len(inflight) <= 1
    /\ \A i \in 1..(Len(stack) - 1) : IsLoader(stack[i]) => stack[i].pc = "exit"

\* C3 witness: a chat exchange that started inside the __exit__ of a
\* generation is calling the backend.
C3_Witness ==
    /\ Len(stack) = 2
    /\ stack[1].op = "generate" /\ stack[1].pc = "exit"
    /\ stack[2].op = "send" /\ stack[2].pc = "call1"

\* C4: for a non-empty message the two backend calls are sequential: call 1
\* is the only request while it runs, it has completed when call 2 is
\* issued, call 2's context ends with call 1's exchange, and a failed call 1
\* is the only call the exchange issued.
C4_Sequential ==
    Running("send") /\ Truthy(Top.user_message) =>
        /\ Len(inflight) <= 1
        /\ Top.pc = "call1" =>
               /\ Len(inflight) = 1
               /\ Request1.input = Top.user_message
               /\ Top.issued = <<Top.user_message>>
        /\ Top.pc = "between" => inflight = <<>>
        /\ Top.pc = "call2" =>
               /\ Len(inflight) = 1
               /\ Request1.input = UpdatePrompt
               /\ Top.issued = <<Top.user_message, UpdatePrompt>>
               /\ Len(Request1.context) >= 2
               /\ LastTurns(Request1.context, 2) =
                      Exchange(Top.user_message, Top.response)
        /\ Top.failed = 1 => Top.issued = <<Top.user_message>>

\* C4 witness: call 2 of a non-empty message is being served.
C4_Witness ==
    Running("send") /\ Truthy(Top.user_message) /\ Top.pc = "call2"

\* C5: after a failed call of a chat exchange the phase is Review, the
\* Artifact is what it was, the user's turn is in the transcript, and the
\* number of assistant turns is what it was.
C5_FailureKeepsUserTurn ==
    Running("send") /\ Failed(Top) =>
        /\ tab = 1
        /\ cover_letter_display = Top.pre.artifact
        /\ chat_display = Append(Top.pre.chat, YouLine(Top.user_message))
        /\ CountRole(chat_display, "Bot") = CountRole(Top.pre.chat, "Bot")

C7_ChatSuccess ==
    Running("send") /\ Truthy(Top.user_message) /\ Succeeded(Top) =>
        /\ tab = 1
        /\ Len(memory) >= 4
        /\ LastTurns(memory, 4) =
               Exchange(Top.user_message, chat_display[Len(chat_display)].content)
               \o Exchange(UpdatePrompt, cover_letter_display)
        /\ chat_display =
               Top.pre.chat \o << YouLine(Top.user_message),
                                  BotLine(memory[Len(memory) - 2].content) >>

\* C7 witness: an exchange succeeded whose two replies differ.
C7_Witness ==
    /\ Running("send") /\ Truthy(Top.user_message) /\ Succeeded(Top)
    /\ Top.response # Top.result

\* C8: a generation call is issued, and the phase becomes Review, only
\* while credential, resume text and initial instruction are all non-empty.
C8_SettingsComplete ==
    Running("generate") /\ (Top.pc \in {"call1", "result"} \/ Succeeded(Top))
        => Complete(settings)

\* C9: returnToSource() in the Review phase sets the phase to Source and
\* leaves the source text, the Artifact and the conversation unchanged.
C9_Step ==
    event' = "return" /\ tab = 1 =>
        /\ tab' = 0
        /\ html_editor' = html_editor
        /\ cover_letter_display' = cover_letter_display
        /\ memory' = memory
        /\ chat_display' = chat_display

C9_ReturnUnconditional == [][C9_Step]_vars

\* C9 witness: returnToSource() has just left the Review phase.
C9_Witness == event = "return" /\ tab = 0 /\ cover_letter_display # <<>>

\* C10: when generate() issues its backend call, the credential the backend
\* handle was created with is the credential currently held in Settings.
C10_CredentialCurrent ==
    Running("generate") /\ Top.pc = "call1" =>
        Request1.key = settings.api_key

====
